---- MODULE Spec2Model ----
(***************************************************************************)
(* The segmented download orchestrator of all-video-downloader:            *)
(*   FileSplitter (fileSplitter.ts): splitFile, getFileSize, waitForSlot,  *)
(*                                   downloadPart                          *)
(*   POST         (route.ts):        the download request handler          *)
(*   AdTracker    (adTracker.ts):    isUnlocked, trackAdWatch              *)
(*   RateLimiter  (rateLimiter.ts):  checkLimit, recordDownload            *)
(*   DownloadLimiter (downloadLimiter.ts): checkDownloadLimit,             *)
(*                                   recordDownload                        *)
(*   Home         (page.tsx):        handleSubmit, the page's retry loop   *)
(*                                                                         *)
(* Every asynchronous function is split at its awaits: one action is the   *)
(* synchronous code that runs between two suspension points.               *)
(*                                                                         *)
(* Byte counts are kept in blocks of 10240 bytes, the greatest common      *)
(* divisor of MAX_PART_SIZE (5 GiB) and of the documented 12 000 000 000   *)
(* byte example, so that every size fits the model checker's integers.     *)
(***************************************************************************)
EXTENDS Integers, Sequences, FiniteSets, TLC

VARIABLES
  pc,               \* where each invocation (process) is suspended
  req,              \* the JSON body of a POST request; NoReq for a direct call
  part,             \* the FilePart argument of the process's downloadPart call
  fileSize,         \* POST's local fileSize
  waitsOn,          \* the process whose downloadPromise an attached caller got
  dpResult,         \* the settled result of the process's downloadPart call
  resp,             \* the response POST returned
  fetches,          \* how many byte-fetching GETs the process has issued
  overlap,          \* the invocations still running when the process started
  downloadQueue,    \* FileSplitter.downloadQueue: download key -> promise owner
  activeDownloads,  \* FileSplitter.activeDownloads: set of download keys
  redis,            \* the key-value TTL store
  downloadHistory,  \* prisma.downloadHistory rows
  userDownloads,    \* prisma.userDownloads rows
  contentLength,    \* the remote servers: content-length of each URL
  planInput,        \* the argument of a splitFile call
  planPc,           \* "call" before splitFile ran, "returned" after
  planResult,       \* what the splitFile call produced
  now,              \* the clock, in milliseconds
  rateCounter,      \* redis `rate_limit:${ip}`: count and expiry of each key
  adUnlock,         \* prisma.adUnlock rows
  rateLimit,        \* POST's local rateLimit: what redis.incr returned
  isUnlocked,       \* what AdTracker.isUnlocked returned to the process
  quota,            \* what RateLimiter.checkLimit returned to the process
  tracked,          \* what AdTracker.trackAdWatch returned to the process
  date,             \* the `new Date()` the process's prisma call captured
  clientPc,         \* the client page: where handleSubmit stands
  form,             \* the page's downloadSpeed, partUnlocked[currentPart], mode
  retryCount,       \* the page's React state retryCount
  closure,          \* the retryCount the running handleSubmit closed over
  requests,         \* the POSTs the current submission has sent
  statuses,         \* the statuses of the responses it has received
  error             \* the page's React state error

vars == <<pc, req, part, fileSize, waitsOn, dpResult, resp, fetches, overlap,
          downloadQueue,
          activeDownloads, redis, downloadHistory, userDownloads,
          contentLength, planInput, planPc, planResult,
          now, rateCounter, adUnlock, rateLimit, isUnlocked, quota, tracked,
          date, clientPc, form, retryCount, closure, requests, statuses, error>>

procVars  == <<pc, req, part, fileSize, waitsOn, dpResult, resp, fetches, overlap>>
storeVars == <<downloadQueue, activeDownloads, redis, downloadHistory, userDownloads>>
planVars  == <<planInput, planPc, planResult>>
gateVars  == <<now, rateCounter, adUnlock, rateLimit, isUnlocked, quota, tracked>>
clientVars == <<clientPc, form, retryCount, closure, requests, statuses, error>>

-----------------------------------------------------------------------------
(* Bounds of the model *)

\* concurrent direct callers of downloadPart
NumCallers == 3
\* concurrent direct callers of downloadPart when the pool is exercised (one
\* more than the pool holds)
PoolCallers == 6
\* concurrent POST requests
NumRequests == 2
\* how often the clock advances in a run
MaxTicks == 2
\* splitFile is tried on sizes up to MaxPlanParts whole parts ...
MaxPlanParts == 3
\* ... give or take PlanSlack blocks
PlanSlack == 8

-----------------------------------------------------------------------------
(* Program constants *)

\* 5 * 1024 * 1024 * 1024 bytes, in blocks of 10240 bytes
MAX_PART_SIZE == 524288
MAX_CONCURRENT_DOWNLOADS == 5
\* route.ts: const MAX_SIZE = 5 * 1024 * 1024 * 1024, in blocks
MAX_SIZE == 524288

\* 12 000 000 000 bytes, in blocks
ExampleSize == 2 * MAX_PART_SIZE + 123299

\* route.ts: rateLimit > 100, and redis.expire(rateLimitKey, 60) in seconds
RATE_LIMIT == 100
RATE_WINDOW == 60
\* AdTracker (adTracker.ts), in milliseconds
UNLOCK_DURATION == 3600000
MIN_WATCH_TIME == 5000
\* RateLimiter's defaultConfig (rateLimiter.ts)
maxDownloads == 3
windowMs == 3600000

None == "none"
NoReq ==
  [kind |-> "none", url |-> "", hasPartSize |-> FALSE, partSize |-> 0,
   mode |-> "", downloadSpeed |-> "", sessionId |-> "", ip |-> "",
   watchTime |-> 0]
NoPart == [url |-> "", partNumber |-> 0, size |-> 0, totalParts |-> 0]

Procs == DOMAIN pc

Min(a, b) == IF a < b THEN a ELSE b
Max(a, b) == IF a > b THEN a ELSE b

\* Math.ceil(a / b) for b > 0
Ceil(a, b) == -((-a) \div b)

-----------------------------------------------------------------------------
(* FileSplitter.splitFile *)

splitFile_NoClamp(size) ==
  LET totalParts == Ceil(size, MAX_PART_SIZE)
  IN  [i \in 1..totalParts |->
         LET start == (i - 1) * MAX_PART_SIZE
             end   == start + MAX_PART_SIZE
         IN  [url |-> "", partNumber |-> i, size |-> end - start,
              totalParts |-> totalParts]]

splitFile(size) ==
  LET totalParts == Ceil(size, MAX_PART_SIZE)
  IN  [i \in 1..totalParts |->
         LET start == (i - 1) * MAX_PART_SIZE
             end   == Min(start + MAX_PART_SIZE, size)
         IN  [url |-> "", partNumber |-> i, size |-> end - start,
              totalParts |-> totalParts]]

\* the sizes splitFile is tried on: around every multiple of MAX_PART_SIZE
\* (zero and negative sizes included), and the documented example
PlanSizes ==
  {k * MAX_PART_SIZE + d : k \in 0..MaxPlanParts, d \in (-PlanSlack)..PlanSlack}
    \cup {ExampleSize}

\* a call of splitFile: it returns a list for every argument and never throws
SplitFile ==
  /\ planPc = "call"
  /\ planPc' = "returned"
  /\ planResult' = [threw |-> FALSE, parts |-> splitFile(planInput)]
  /\ UNCHANGED <<planInput, procVars, storeVars, contentLength, gateVars, date,
                 clientVars>>

\* the next call, with another argument
NextPlan ==
  /\ planPc = "returned"
  /\ planPc' = "call"
  /\ planInput' \in PlanSizes
  /\ planResult' = [threw |-> FALSE, parts |-> <<>>]
  /\ UNCHANGED <<procVars, storeVars, contentLength, gateVars, date, clientVars>>

-----------------------------------------------------------------------------
(* The key-value TTL store (ioredis) *)

\* the URLs detectContentType classifies as torrents without a request:
\* url.endsWith('.torrent') || url.startsWith('magnet:?')
TorrentUrls == {"magnet:?t"}

Urls == {"a", "b"} \cup TorrentUrls

\* part indexes a client sends, and FileSplitter callers pass
MaxPartIndex == 3
PartIndexes == 1..MaxPartIndex

Nil == [kind |-> "nil"]
\* redis stores strings: n.toString(), read back with parseInt(s, 10)
NumStr(n) == [kind |-> "str", num |-> n]
parseInt(s) == s.num
Json(v) == [kind |-> "json", value |-> v]
Buffer(b) == [kind |-> "buffer", bytes |-> b]

\* `file_info:${url}`, `file_size:${url}`, `file_part:${url}#part${n}`
InfoKey(u) == <<"file_info", u, 0>>
SizeKey(u) == <<"file_size", u, 0>>
PartKey(k) == <<"file_part", k[1], k[2]>>

DownloadKeys == Urls \X PartIndexes
RedisKeys == {InfoKey(u) : u \in Urls} \cup {SizeKey(u) : u \in Urls}
               \cup {PartKey(k) : k \in DownloadKeys}

\* `${part.url}#part${part.partNumber}`
downloadKey(p) == <<p.url, p.partNumber>>

\* the TTL of a key elapses (setex ..., 3600, ...)
Expire(rk) ==
  /\ redis[rk] # Nil
  /\ redis' = [redis EXCEPT ![rk] = Nil]
  /\ UNCHANGED <<procVars, downloadQueue, activeDownloads, downloadHistory,
                 userDownloads, contentLength, planVars, clientVars, gateVars, date>>

-----------------------------------------------------------------------------
(* FileSplitter.downloadPart *)

\* the Range header of the request downloadPart issues for a part
RangeStart(p) == (p.partNumber - 1) * MAX_PART_SIZE
RangeEnd(p) == RangeStart(p) + p.size - 1

\* the processes whose range request (axios.get with Range) is outstanding
Outstanding == {c \in Procs : pc[c] = "get"}
OutstandingFor(k) == {c \in Outstanding : downloadKey(part[c]) = k}

\* invocations are numbered in the order they start
MayStart(c) == pc[c] = "idle" /\ (IF c = 1 THEN TRUE ELSE pc[c - 1] # "idle")

\* the invocations in progress
Running == {d \in Procs : pc[d] \notin {"idle", "done"}}

\* c starts: the invocations for the same URL that are in progress overlap it
Started(c, u) ==
  overlap' = [overlap EXCEPT ![c] =
                {d \in Running : IF req[d] = NoReq THEN part[d].url = u
                                                   ELSE req[d].url = u}]

\* downloadPart up to its first await: attach to the promise in
\* downloadQueue, or else ask the cache
EnterDownloadPart_SlotFirst(c, p) ==
  LET k == downloadKey(p)
  IN  /\ part' = [part EXCEPT ![c] = p]
      /\ IF Cardinality(activeDownloads) >= MAX_CONCURRENT_DOWNLOADS
           THEN /\ pc' = [pc EXCEPT ![c] = "sleep"]
                /\ UNCHANGED waitsOn
           ELSE IF downloadQueue[k] # 0
                  THEN /\ pc' = [pc EXCEPT ![c] = "attached"]
                       /\ waitsOn' = [waitsOn EXCEPT ![c] = downloadQueue[k]]
                  ELSE /\ pc' = [pc EXCEPT ![c] = "getBuffer"]
                       /\ UNCHANGED waitsOn

EnterDownloadPart(c, p) ==
  LET k == downloadKey(p)
  IN  /\ part' = [part EXCEPT ![c] = p]
      /\ IF downloadQueue[k] # 0
           THEN /\ pc' = [pc EXCEPT ![c] = "attached"]
                /\ waitsOn' = [waitsOn EXCEPT ![c] = downloadQueue[k]]
           ELSE /\ pc' = [pc EXCEPT ![c] = "getBuffer"]
                /\ UNCHANGED waitsOn

\* the responses of POST
NoInfo ==
  [type |-> "none", url |-> "", totalSize |-> 0,
   suggestedPartSize |-> 0, canSplit |-> FALSE, totalParts |-> 0]

Respond(r, status, type, info) ==
  /\ pc' = [pc EXCEPT ![r] = "done"]
  /\ resp' = [resp EXCEPT ![r] = [status |-> status, type |-> type, info |-> info]]

\* the catch block
Respond500(r) == Respond(r, 500, "error", NoInfo)

\* POST calls rateLimiter.recordDownload in history mode (its timestamp is
\* the `new Date()` of the call), DownloadLimiter.recordDownload otherwise
CallRecord(r) ==
  IF req[r].mode = "history"
    THEN /\ pc' = [pc EXCEPT ![r] = "recordHistory"]
         /\ date' = [date EXCEPT ![r] = now]
    ELSE /\ pc' = [pc EXCEPT ![r] = "recordUser"]
         /\ UNCHANGED date

\* POST after `await FileSplitter.downloadPart(...)` gave v: a rejection
\* lands in the catch block, a payload goes on to the recording
PostAfterPart_RecordsFailure(r, v) ==
  CallRecord(r) /\ UNCHANGED resp

PostAfterPart(r, v) ==
  IF v = "FetchError"
    THEN Respond500(r) /\ UNCHANGED date
    ELSE CallRecord(r) /\ UNCHANGED resp

\* downloadPart of process c settles with v
ReturnFromDownloadPart(c, v) ==
  /\ dpResult' = [dpResult EXCEPT ![c] = v]
  /\ IF req[c] = NoReq
       THEN /\ pc' = [pc EXCEPT ![c] = "done"]
            /\ UNCHANGED <<resp, date>>
       ELSE PostAfterPart(c, v)

\* a direct call FileSplitter.downloadPart(p, ...)
DirectParts ==
  {[url |-> "a", partNumber |-> n, size |-> MAX_PART_SIZE, totalParts |-> 2] :
     n \in 1..2}

CallDownloadPart(c, p) ==
  /\ MayStart(c)
  /\ req[c] = NoReq
  /\ EnterDownloadPart(c, p)
  /\ Started(c, p.url)
  /\ UNCHANGED <<fetches, req, fileSize, dpResult, resp, storeVars, contentLength, planVars, clientVars, gateVars, date>>

\* the promise an attached caller returned settles
AttachedSettles(c) ==
  /\ pc[c] = "attached"
  /\ dpResult[waitsOn[c]] # None
  /\ ReturnFromDownloadPart(c, dpResult[waitsOn[c]])
  /\ UNCHANGED <<fetches, overlap, req, part, fileSize, waitsOn, storeVars,
                 contentLength, planVars, clientVars, gateVars>>

\* redis.getBuffer answers: a cached part is returned; otherwise waitForSlot
\* makes its first test of the pool
GetBufferReply_AlwaysFetches(c) ==
  /\ pc[c] = "getBuffer"
  /\ pc' = [pc EXCEPT ![c] =
              IF Cardinality(activeDownloads) >= MAX_CONCURRENT_DOWNLOADS
                THEN "sleep" ELSE "slotFree"]
  /\ UNCHANGED <<dpResult, resp, date>>
  /\ UNCHANGED <<fetches, overlap, req, part, fileSize, waitsOn, storeVars,
                 contentLength, planVars, clientVars, gateVars>>

GetBufferReply(c) ==
  /\ pc[c] = "getBuffer"
  /\ LET cachedPart == redis[PartKey(downloadKey(part[c]))]
     IN  IF cachedPart # Nil
           THEN ReturnFromDownloadPart(c, "payload")
           ELSE /\ pc' = [pc EXCEPT ![c] =
                           IF Cardinality(activeDownloads) >= MAX_CONCURRENT_DOWNLOADS
                             THEN "sleep" ELSE "slotFree"]
                /\ UNCHANGED <<dpResult, resp, date>>
  /\ UNCHANGED <<fetches, overlap, req, part, fileSize, waitsOn, storeVars,
                 contentLength, planVars, clientVars, gateVars>>

\* waitForSlot: the 100 ms timer fired and the pool is no longer full
waitForSlot(c) ==
  /\ pc[c] = "sleep"
  /\ Cardinality(activeDownloads) < MAX_CONCURRENT_DOWNLOADS
  /\ pc' = [pc EXCEPT ![c] = "slotFree"]
  /\ UNCHANGED <<fetches, overlap, req, part, fileSize, waitsOn, dpResult, resp, storeVars,
                 contentLength, planVars, clientVars, gateVars, date>>

\* after `await this.waitForSlot()`: take the slot, issue the range request
\* and publish its promise
IssueRangeRequest(c) ==
  /\ pc[c] = "slotFree"
  /\ LET k == downloadKey(part[c])
     IN  /\ activeDownloads' = activeDownloads \cup {k}
         /\ downloadQueue' = [downloadQueue EXCEPT ![k] = c]
  /\ pc' = [pc EXCEPT ![c] = "get"]
  /\ fetches' = [fetches EXCEPT ![c] = @ + 1]
  /\ UNCHANGED <<overlap, req, part, fileSize, waitsOn, dpResult, resp, redis,
                 downloadHistory, userDownloads, contentLength, planVars, clientVars, gateVars, date>>

\* the range request is answered 2xx: the .then callback starts redis.setex
RangeResponse(c) ==
  /\ pc[c] = "get"
  /\ pc' = [pc EXCEPT ![c] = "setexPart"]
  /\ UNCHANGED <<fetches, overlap, req, part, fileSize, waitsOn, dpResult, resp, storeVars,
                 contentLength, planVars, clientVars, gateVars, date>>

\* the finally block
ReleaseNothing(k) ==
  /\ UNCHANGED <<activeDownloads, downloadQueue>>

Release(k) ==
  /\ activeDownloads' = activeDownloads \ {k}
  /\ downloadQueue' = [downloadQueue EXCEPT ![k] = 0]

\* the part is cached, downloadPromise resolves, finally runs
PartCached(c) ==
  /\ pc[c] = "setexPart"
  /\ LET k == downloadKey(part[c])
     IN  /\ redis' = [redis EXCEPT ![PartKey(k)] = Buffer("payload")]
         /\ Release(k)
  /\ ReturnFromDownloadPart(c, "payload")
  /\ UNCHANGED <<fetches, overlap, req, part, fileSize, waitsOn, downloadHistory, userDownloads,
                 contentLength, planVars, clientVars, gateVars>>

\* the range request fails (timeout, non-2xx, network error): finally runs
\* and the rejection propagates
RangeError(c) ==
  /\ pc[c] = "get"
  /\ Release(downloadKey(part[c]))
  /\ ReturnFromDownloadPart(c, "FetchError")
  /\ UNCHANGED <<fetches, overlap, req, part, fileSize, waitsOn, redis, downloadHistory,
                 userDownloads, contentLength, planVars, clientVars, gateVars>>

FetcherStep ==
  \/ \E c \in Procs : AttachedSettles(c)
  \/ \E c \in Procs : GetBufferReply(c)
  \/ \E c \in Procs : IssueRangeRequest(c)
  \/ \E c \in Procs : RangeResponse(c)
  \/ \E c \in Procs : PartCached(c)
  \/ \E c \in Procs : RangeError(c)

-----------------------------------------------------------------------------
(* POST (route.ts), from the file-info lookup on: the request was admitted *)

\* the request bodies clients send: partSize is the part index; the
\* field may be absent (hasPartSize = FALSE)
Modes == {"history", "private"}
RouteUrls == {"a"}
Bodies ==
  {[kind |-> "POST", url |-> u, hasPartSize |-> n # 0, partSize |-> n,
    mode |-> m, downloadSpeed |-> "slow", sessionId |-> "s1", ip |-> "ip1",
    watchTime |-> 0] :
     u \in RouteUrls, n \in {0} \cup PartIndexes, m \in Modes}

\* JavaScript's !body.partSize for an absent field or a number
NoPartSize(body) == IF body.hasPartSize THEN body.partSize = 0 ELSE TRUE

\* detectContentType: a ContentInfo object; every failure degrades to "file"
detectContentType(u) ==
  [kind |-> "object",
   type |-> IF u \in TorrentUrls THEN "torrent" ELSE "file"]

\* JavaScript's v === s for a string s
StrictEqualsString(v, s) == IF v.kind = "string" THEN v.value = s ELSE FALSE

\* Math.ceil(fileSize / MAX_SIZE)
TotalPartsFloor(size) == size \div MAX_SIZE

TotalParts(size) == Ceil(size, MAX_SIZE)

largeFileInfo(u, size) ==
  [type |-> "large_file", url |-> u, totalSize |-> size,
   suggestedPartSize |-> MAX_SIZE, canSplit |-> TRUE,
   totalParts |-> TotalParts(size)]

fileInfoOf(u, size) ==
  [type |-> "file", url |-> u, totalSize |-> size,
   suggestedPartSize |-> 0, canSplit |-> FALSE, totalParts |-> 0]

\* downloadSpeed === 'slow': the fetch is paced by onDownloadProgress
isSlow(body) == body.downloadSpeed = "slow"

\* the whole-resource GETs (route.ts axios.get(url)) that are outstanding
OutstandingWhole == {r \in Procs : pc[r] = "getWhole"}

\* a request arrives and passes the gates; redis.get(`file_info:${url}`)
Post(r, body) ==
  /\ MayStart(r)
  /\ req' = [req EXCEPT ![r] = body]
  /\ pc' = [pc EXCEPT ![r] = "getInfo"]
  /\ Started(r, body.url)
  /\ UNCHANGED <<fetches, part, fileSize, waitsOn, dpResult, resp, storeVars,
                 contentLength, planVars, clientVars, gateVars, date>>

\* file info is cached: answer with it. Otherwise detectContentType
\* classifies the URL, contentType is compared with 'torrent', and
\* getFileSize asks redis for `file_size:${url}`
FileInfoReply(r) ==
  /\ pc[r] = "getInfo"
  /\ LET fileInfo == redis[InfoKey(req[r].url)]
         contentType == detectContentType(req[r].url)
     IN  IF fileInfo # Nil
           THEN Respond(r, 200, fileInfo.value.type, fileInfo.value)
           ELSE /\ pc' = [pc EXCEPT ![r] =
                           IF StrictEqualsString(contentType, "torrent")
                             THEN "torrent" ELSE "getSize"]
                /\ UNCHANGED resp
  /\ UNCHANGED <<fetches, overlap, req, part, fileSize, waitsOn, dpResult, storeVars,
                 contentLength, planVars, clientVars, gateVars, date>>

\* POST once getFileSize returned size: the descriptor of an oversized
\* resource, one part of it, or the whole resource
RequestedPart(r, size) ==
  [url |-> req[r].url, partNumber |-> parseInt(NumStr(req[r].partSize)),
   size |-> MAX_SIZE, totalParts |-> TotalParts(size)]

AfterFileSize(r, size) ==
  /\ fileSize' = [fileSize EXCEPT ![r] = size]
  /\ IF size > MAX_SIZE
       THEN IF NoPartSize(req[r])
              THEN /\ pc' = [pc EXCEPT ![r] = "setexLarge"]
                   /\ UNCHANGED <<part, waitsOn, fetches>>
              ELSE /\ EnterDownloadPart(r, RequestedPart(r, size))
                   /\ UNCHANGED fetches
       ELSE /\ pc' = [pc EXCEPT ![r] = "getWhole"]
            /\ fetches' = [fetches EXCEPT ![r] = @ + 1]
            /\ UNCHANGED <<part, waitsOn>>

\* getFileSize: the size is cached, or a HEAD probe is sent
FileSizeReply(r) ==
  /\ pc[r] = "getSize"
  /\ LET cachedSize == redis[SizeKey(req[r].url)]
     IN  IF cachedSize # Nil
           THEN AfterFileSize(r, parseInt(cachedSize))
           ELSE /\ pc' = [pc EXCEPT ![r] = "head"]
                /\ UNCHANGED <<part, fileSize, waitsOn, fetches>>
  /\ UNCHANGED <<overlap, req, dpResult, resp, storeVars, contentLength, planVars, clientVars, gateVars, date>>

\* the HEAD probe fails or times out
HeadError(r) ==
  /\ pc[r] = "head"
  /\ Respond500(r)
  /\ UNCHANGED <<fetches, overlap, req, part, fileSize, waitsOn, dpResult, storeVars,
                 contentLength, planVars, clientVars, gateVars, date>>

\* the HEAD probe answered with content-length and redis.setex stored it
FileSizeCached(r) ==
  /\ pc[r] = "head"
  /\ LET size == contentLength[req[r].url]
     IN  /\ redis' = [redis EXCEPT ![SizeKey(req[r].url)] = NumStr(size)]
         /\ AfterFileSize(r, size)
  /\ UNCHANGED <<overlap, req, dpResult, resp, downloadQueue, activeDownloads,
                 downloadHistory, userDownloads, contentLength, planVars, clientVars, gateVars, date>>

\* the descriptor is cached and returned
LargeInfoCached_Records(r) ==
  /\ pc[r] = "setexLarge"
  /\ LET info == largeFileInfo(req[r].url, fileSize[r])
     IN  /\ redis' = [redis EXCEPT ![InfoKey(req[r].url)] = Json(info)]
         /\ Respond(r, 200, "large_file", info)
  /\ userDownloads' = userDownloads \cup {[id |-> r, url |-> req[r].url, type |-> "file"]}
  /\ UNCHANGED <<fetches, overlap, req, part, fileSize, waitsOn, dpResult, downloadQueue,
                 activeDownloads, downloadHistory, contentLength,
                 planVars, clientVars, gateVars, date>>

LargeInfoCached(r) ==
  /\ pc[r] = "setexLarge"
  /\ LET info == largeFileInfo(req[r].url, fileSize[r])
     IN  /\ redis' = [redis EXCEPT ![InfoKey(req[r].url)] = Json(info)]
         /\ Respond(r, 200, "large_file", info)
  /\ UNCHANGED <<fetches, overlap, req, part, fileSize, waitsOn, dpResult, downloadQueue,
                 activeDownloads, downloadHistory, userDownloads, contentLength,
                 planVars, clientVars, gateVars, date>>

\* the whole-resource GET answers
WholeResponse(r) ==
  /\ pc[r] = "getWhole"
  /\ CallRecord(r)
  /\ UNCHANGED <<fetches, overlap, req, part, fileSize, waitsOn, dpResult, resp, storeVars,
                 contentLength, planVars, clientVars, gateVars>>

WholeError(r) ==
  /\ pc[r] = "getWhole"
  /\ Respond500(r)
  /\ UNCHANGED <<fetches, overlap, req, part, fileSize, waitsOn, dpResult, storeVars,
                 contentLength, planVars, clientVars, gateVars, date>>

\* rateLimiter.recordDownload created its DownloadHistory row
HistoryRecorded(r) ==
  /\ pc[r] = "recordHistory"
  /\ downloadHistory' = downloadHistory \cup
       {[row |-> Cardinality(downloadHistory) + 1, id |-> r,
         sessionId |-> req[r].sessionId, url |-> req[r].url,
         partNumber |-> IF part[r] = NoPart THEN 0 ELSE req[r].partSize,
         timestamp |-> date[r]]}
  /\ pc' = [pc EXCEPT ![r] = "recordUser"]
  /\ UNCHANGED <<fetches, overlap, req, part, fileSize, waitsOn, dpResult, resp, downloadQueue,
                 activeDownloads, redis, userDownloads, contentLength, planVars, clientVars, gateVars, date>>

\* DownloadLimiter.recordDownload created its UserDownloads row: the part is
\* returned, or the info of the whole file is cached first
UserRecorded(r) ==
  /\ pc[r] = "recordUser"
  /\ userDownloads' = userDownloads \cup
       {[id |-> r, url |-> req[r].url,
         type |-> IF part[r] = NoPart THEN "file" ELSE "part"]}
  /\ IF part[r] = NoPart
       THEN /\ pc' = [pc EXCEPT ![r] = "setexFile"]
            /\ UNCHANGED resp
       ELSE Respond(r, 200, "part", NoInfo)
  /\ UNCHANGED <<fetches, overlap, req, part, fileSize, waitsOn, dpResult, downloadQueue,
                 activeDownloads, redis, downloadHistory, contentLength, planVars, clientVars, gateVars, date>>

FileInfoCached(r) ==
  /\ pc[r] = "setexFile"
  /\ redis' = [redis EXCEPT ![InfoKey(req[r].url)] =
                 Json(fileInfoOf(req[r].url, fileSize[r]))]
  /\ Respond(r, 200, "bytes", NoInfo)
  /\ UNCHANGED <<fetches, overlap, req, part, fileSize, waitsOn, dpResult, downloadQueue,
                 activeDownloads, downloadHistory, userDownloads, contentLength,
                 planVars, clientVars, gateVars, date>>

RouteStep ==
  \/ \E r \in Procs : FileInfoReply(r)
  \/ \E r \in Procs : FileSizeReply(r)
  \/ \E r \in Procs : HeadError(r)
  \/ \E r \in Procs : FileSizeCached(r)
  \/ \E r \in Procs : LargeInfoCached(r)
  \/ \E r \in Procs : WholeResponse(r)
  \/ \E r \in Procs : WholeError(r)
  \/ \E r \in Procs : HistoryRecorded(r)
  \/ \E r \in Procs : UserRecorded(r)
  \/ \E r \in Procs : FileInfoCached(r)

-----------------------------------------------------------------------------
(* The clock *)

\* the clock advances by step milliseconds, at most MaxTicks times; redis
\* drops the rate-limit keys whose expiry has been reached
NoExpiry == -1
NoCounter == [count |-> 0, expiresAt |-> NoExpiry]

Tick(step) ==
  /\ now + step <= MaxTicks * step
  /\ now' = now + step
  /\ rateCounter' =
       [ip \in DOMAIN rateCounter |->
          IF /\ rateCounter[ip].expiresAt # NoExpiry
             /\ rateCounter[ip].expiresAt <= now + step
            THEN NoCounter ELSE rateCounter[ip]]
  /\ UNCHANGED <<procVars, storeVars, contentLength, planVars, clientVars, adUnlock,
                 rateLimit, isUnlocked, quota, tracked, date>>

-----------------------------------------------------------------------------
(* AdTracker (adTracker.ts) *)

Sessions == {"s1", "s2"}

\* `${url}#part${partSize}`: partSize may be undefined
partUrl(body) ==
  [url |-> body.url, defined |-> body.hasPartSize,
   n |-> IF body.hasPartSize THEN body.partSize ELSE 0]

\* prisma.adUnlock.findFirst({where: {sessionId, url, expiresAt: {gt: d}}})
findFirst(sessionId, url, d) ==
  {row \in adUnlock : /\ row.sessionId = sessionId
                      /\ row.url = url
                      /\ row.expiresAt > d}

\* prisma.adUnlock.upsert on the unique pair (sessionId, url)
upsert_KeepsExpiry(sessionId, url, at, expiresAt) ==
  IF \E row \in adUnlock : row.sessionId = sessionId /\ row.url = url
    THEN {IF row.sessionId = sessionId /\ row.url = url
            THEN [row EXCEPT !.unlockedAt = at]
            ELSE row : row \in adUnlock}
    ELSE adUnlock \cup {[sessionId |-> sessionId, url |-> url,
                         unlockedAt |-> at, expiresAt |-> expiresAt]}

upsert(sessionId, url, at, expiresAt) ==
  IF \E row \in adUnlock : row.sessionId = sessionId /\ row.url = url
    THEN {IF row.sessionId = sessionId /\ row.url = url
            THEN [row EXCEPT !.unlockedAt = at, !.expiresAt = expiresAt]
            ELSE row : row \in adUnlock}
    ELSE adUnlock \cup {[sessionId |-> sessionId, url |-> url,
                         unlockedAt |-> at, expiresAt |-> expiresAt]}

\* the calls of AdTracker made from outside POST
WatchTimes == {MIN_WATCH_TIME - 1, MIN_WATCH_TIME, MIN_WATCH_TIME + 1000}
UnlockParts == 1..2

AdCalls(kinds, sessions, watchTimes) ==
  {[kind |-> k, url |-> "a", hasPartSize |-> TRUE, partSize |-> n,
    mode |-> "", downloadSpeed |-> "", sessionId |-> sid, ip |-> "",
    watchTime |-> IF k = "trackAdWatch" THEN w ELSE 0] :
     k \in kinds, n \in UnlockParts, sid \in sessions, w \in watchTimes}

\* isUnlocked up to its await: findFirst is sent with `new Date()`
CallFindFirst(c) ==
  /\ pc' = [pc EXCEPT ![c] = "findFirst"]
  /\ date' = [date EXCEPT ![c] = now]

\* a call AdTracker.isUnlocked(sessionId, url)
CallIsUnlocked(c, args) ==
  /\ MayStart(c)
  /\ args.kind = "isUnlocked"
  /\ req' = [req EXCEPT ![c] = args]
  /\ Started(c, args.url)
  /\ CallFindFirst(c)
  /\ UNCHANGED <<fetches, part, fileSize, waitsOn, dpResult, resp, storeVars,
                 contentLength, planVars, clientVars, gateVars>>

\* a call AdTracker.trackAdWatch(sessionId, url, watchTime): too short a
\* watch returns false at once, otherwise the upsert is sent
trackAdWatch_NoMinimum(c, args) ==
  /\ pc' = [pc EXCEPT ![c] = "upsert"]
  /\ date' = [date EXCEPT ![c] = now]
  /\ UNCHANGED tracked

trackAdWatch(c, args) ==
  IF args.watchTime < MIN_WATCH_TIME
    THEN /\ pc' = [pc EXCEPT ![c] = "done"]
         /\ tracked' = [tracked EXCEPT ![c] = "false"]
         /\ UNCHANGED date
    ELSE /\ pc' = [pc EXCEPT ![c] = "upsert"]
         /\ date' = [date EXCEPT ![c] = now]
         /\ UNCHANGED tracked

CallTrackAdWatch(c, args) ==
  /\ MayStart(c)
  /\ args.kind = "trackAdWatch"
  /\ req' = [req EXCEPT ![c] = args]
  /\ Started(c, args.url)
  /\ trackAdWatch(c, args)
  /\ UNCHANGED <<fetches, part, fileSize, waitsOn, dpResult, resp, storeVars,
                 contentLength, planVars, clientVars, now, rateCounter, adUnlock,
                 rateLimit, isUnlocked, quota>>

\* the upsert is done: trackAdWatch returns true
UpsertReply(c) ==
  /\ pc[c] = "upsert"
  /\ adUnlock' = upsert(req[c].sessionId, partUrl(req[c]), date[c],
                        date[c] + UNLOCK_DURATION)
  /\ tracked' = [tracked EXCEPT ![c] = "true"]
  /\ pc' = [pc EXCEPT ![c] = "done"]
  /\ UNCHANGED <<req, part, fileSize, waitsOn, dpResult, resp, fetches,
                 overlap, storeVars, contentLength, planVars, clientVars, now,
                 rateCounter, rateLimit, isUnlocked, quota, date>>

-----------------------------------------------------------------------------
(* POST (route.ts) up to the file-info lookup: the gates *)

Addrs == {"ip1", "unknown"}

\* request.headers.get('x-forwarded-for') || 'unknown'
clientAddress(body) == IF body.ip = "" THEN "unknown" ELSE body.ip

\* DownloadLimiter.checkDownloadLimit: always allows
checkDownloadLimit_Capped(userId) ==
  [allowed |-> userDownloads = {}, remaining |-> "Infinity"]

checkDownloadLimit(userId) == [allowed |-> TRUE, remaining |-> "Infinity"]

NoQuota == [allowed |-> FALSE, remaining |-> -1]

\* RateLimiter.checkLimit, given the rows in the window the query counted
checkLimit_AlwaysAllowed(downloadCount) ==
  LET remaining == Max(0, maxDownloads - downloadCount)
  IN  [allowed |-> remaining >= 0, remaining |-> remaining]

checkLimit(downloadCount) ==
  LET remaining == Max(0, maxDownloads - downloadCount)
  IN  [allowed |-> remaining > 0, remaining |-> remaining]

\* prisma.downloadHistory.count({where: {sessionId, timestamp: {gte, lte}}})
count(sessionId, windowStart, d) ==
  Cardinality({row \in downloadHistory : /\ row.sessionId = sessionId
                                         /\ row.timestamp >= windowStart
                                         /\ row.timestamp <= d})

\* past the unlock gate: history mode asks RateLimiter.checkLimit, which
\* sends its count query with `new Date()`; otherwise redis.get of the file
\* info is sent
AfterUnlockGate_NoQuota(r) ==
  /\ pc' = [pc EXCEPT ![r] = "getInfo"]
  /\ UNCHANGED date

AfterUnlockGate(r) ==
  IF req[r].mode = "history"
    THEN /\ pc' = [pc EXCEPT ![r] = "count"]
         /\ date' = [date EXCEPT ![r] = now]
    ELSE /\ pc' = [pc EXCEPT ![r] = "getInfo"]
         /\ UNCHANGED date

\* past redis.incr (and redis.expire): the address gate, then the unlock gate
\* of a fast request
AfterAddressGate_Inclusive(r, n) ==
  IF n >= RATE_LIMIT
    THEN Respond(r, 429, "rate", NoInfo) /\ UNCHANGED date
    ELSE IF req[r].downloadSpeed = "fast"
           THEN CallFindFirst(r) /\ UNCHANGED resp
           ELSE AfterUnlockGate(r) /\ UNCHANGED resp

AfterAddressGate_NoUnlockGate(r, n) ==
  IF n > RATE_LIMIT
    THEN Respond(r, 429, "rate", NoInfo) /\ UNCHANGED date
    ELSE AfterUnlockGate(r) /\ UNCHANGED resp

AfterAddressGate(r, n) ==
  IF n > RATE_LIMIT
    THEN Respond(r, 429, "rate", NoInfo) /\ UNCHANGED date
    ELSE IF req[r].downloadSpeed = "fast"
           THEN CallFindFirst(r) /\ UNCHANGED resp
           ELSE AfterUnlockGate(r) /\ UNCHANGED resp

\* a request arrives: the body is parsed, the URL validated, the download
\* limit asked, and redis.incr of the address counter is sent
Arrive(r, body) ==
  /\ MayStart(r)
  /\ body.kind = "POST"
  /\ req' = [req EXCEPT ![r] = body]
  /\ Started(r, body.url)
  /\ IF body.url = ""
       THEN Respond(r, 400, "error", NoInfo)
       ELSE IF ~checkDownloadLimit(body.sessionId).allowed
              THEN Respond(r, 429, "limit", NoInfo)
              ELSE /\ pc' = [pc EXCEPT ![r] = "incr"]
                   /\ UNCHANGED resp
  /\ UNCHANGED <<fetches, part, fileSize, waitsOn, dpResult, storeVars,
                 contentLength, planVars, clientVars, gateVars, date>>

\* redis.incr answers with the new count; the increment that creates the key
\* goes on to set its expiry
IncrReply(r) ==
  /\ pc[r] = "incr"
  /\ LET ip == clientAddress(req[r])
         n == rateCounter[ip].count + 1
     IN  /\ rateCounter' = [rateCounter EXCEPT ![ip].count = n]
         /\ rateLimit' = [rateLimit EXCEPT ![r] = n]
         /\ IF n = 1
              THEN /\ pc' = [pc EXCEPT ![r] = "expire"]
                   /\ UNCHANGED <<resp, date>>
              ELSE AfterAddressGate(r, n)
  /\ UNCHANGED <<req, part, fileSize, waitsOn, dpResult, fetches, overlap,
                 storeVars, contentLength, planVars, clientVars, now, adUnlock,
                 isUnlocked, quota, tracked>>

\* redis.expire(rateLimitKey, 60) is done
ExpireReply(r) ==
  /\ pc[r] = "expire"
  /\ LET ip == clientAddress(req[r])
     IN  rateCounter' =
           IF rateCounter[ip].count > 0
             THEN [rateCounter EXCEPT ![ip].expiresAt = now + RATE_WINDOW * 1000]
             ELSE rateCounter
  /\ AfterAddressGate(r, rateLimit[r])
  /\ UNCHANGED <<req, part, fileSize, waitsOn, dpResult, fetches, overlap,
                 storeVars, contentLength, planVars, clientVars, now, adUnlock,
                 rateLimit, isUnlocked, quota, tracked>>

\* findFirst answers: isUnlocked returns !!unlock; POST rejects a fast
\* request that is not unlocked
FindFirstReply(c) ==
  /\ pc[c] = "findFirst"
  /\ LET unlock == findFirst(req[c].sessionId, partUrl(req[c]), date[c])
     IN  /\ isUnlocked' = [isUnlocked EXCEPT ![c] =
                             IF unlock # {} THEN "yes" ELSE "no"]
         /\ IF req[c].kind = "isUnlocked"
              THEN /\ pc' = [pc EXCEPT ![c] = "done"]
                   /\ UNCHANGED <<resp, date>>
              ELSE IF unlock = {}
                     THEN Respond(c, 403, "locked", NoInfo) /\ UNCHANGED date
                     ELSE AfterUnlockGate(c) /\ UNCHANGED resp
  /\ UNCHANGED <<req, part, fileSize, waitsOn, dpResult, fetches, overlap,
                 storeVars, contentLength, planVars, clientVars, now, rateCounter,
                 adUnlock, rateLimit, quota, tracked>>

\* the count query answers: checkLimit returns, and POST rejects a
\* history-mode request that is not allowed
CountReply(r) ==
  /\ pc[r] = "count"
  /\ LET windowStart == date[r] - windowMs
         downloadCount == count(req[r].sessionId, windowStart, date[r])
         limit == checkLimit(downloadCount)
     IN  /\ quota' = [quota EXCEPT ![r] = limit]
         /\ IF ~limit.allowed
              THEN Respond(r, 429, "quota", NoInfo)
              ELSE /\ pc' = [pc EXCEPT ![r] = "getInfo"]
                   /\ UNCHANGED resp
  /\ UNCHANGED <<req, part, fileSize, waitsOn, dpResult, fetches, overlap,
                 storeVars, contentLength, planVars, clientVars, now, rateCounter,
                 adUnlock, rateLimit, isUnlocked, tracked, date>>

GateStep ==
  \/ \E r \in Procs : IncrReply(r)
  \/ \E r \in Procs : ExpireReply(r)
  \/ \E r \in Procs : FindFirstReply(r)
  \/ \E r \in Procs : CountReply(r)

-----------------------------------------------------------------------------
(* Home.handleSubmit: the page that sends the requests *)

MAX_RETRIES == 3

\* a submission is followed for at most this many requests
MaxSubmitRequests == 6

\* what handleSubmit reads of the page's state besides retryCount
Forms ==
  [downloadSpeed : {"slow", "fast"}, partUnlocked : BOOLEAN,
   mode : {"normal", "history"}]

\* the answers of the server: a status, and for a 2xx answer whether it is
\* JSON, the bytes of a large file or the bytes of a small one
Answers ==
  {[status |-> 200, kind |-> k] : k \in {"json", "large", "small"}}
    \cup {[status |-> st, kind |-> "error"] : st \in {403, 429, 500}}

\* response.ok
ok(answer) == answer.status \in 200..299

\* the state updates React queued, applied in order: an updater function
\* prev => prev + 1, or a value
RECURSIVE ApplyUpdates(_, _)
ApplyUpdates(v, updates) ==
  IF updates = <<>>
    THEN v
    ELSE ApplyUpdates(IF Head(updates).op = "increment"
                        THEN v + 1 ELSE Head(updates).value,
                      Tail(updates))

Increment == [op |-> "increment", value |-> 0]
SetTo(v) == [op |-> "set", value |-> v]

ClientIdle ==
  /\ clientPc = "ready"
  /\ form = [downloadSpeed |-> "slow", partUnlocked |-> FALSE, mode |-> "normal"]
  /\ retryCount = 0
  /\ closure = 0
  /\ requests = 0
  /\ statuses = <<>>
  /\ error = ""

serverVars ==
  <<procVars, storeVars, contentLength, planVars, gateVars, date>>

\* handleSubmit up to its first await, with the retryCount its closure holds:
\* a fast download of a locked part shows the ad and returns, otherwise the
\* request is sent
handleSubmit(f) ==
  /\ error' = ""
  /\ IF f.downloadSpeed = "fast" /\ ~f.partUnlocked
       THEN /\ clientPc' = "showAd"
            /\ UNCHANGED requests
       ELSE /\ clientPc' = "fetch"
            /\ requests' = requests + 1

\* the user submits the form as f: the handleSubmit of the latest render
\* runs, and closes over the retryCount of that render
Submit(f) ==
  /\ clientPc = "ready"
  /\ form' = f
  /\ closure' = retryCount
  /\ statuses' = <<>>
  /\ requests = 0
  /\ handleSubmit(f)
  /\ UNCHANGED <<retryCount, serverVars>>

\* the response arrives. A 429 with retryCount < MAX_RETRIES starts the
\* backoff timer; any other failure is thrown, caught and shown; the finally
\* block resets retryCount
ResponseArrives(answer) ==
  /\ clientPc = "fetch"
  /\ statuses' = Append(statuses, answer.status)
  /\ IF ~ok(answer) /\ answer.status = 429 /\ closure < MAX_RETRIES
       THEN /\ clientPc' = "backoff"
            /\ UNCHANGED <<retryCount, error, requests>>
       ELSE /\ clientPc' = "ready"
            /\ requests' = 0
            /\ retryCount' = ApplyUpdates(retryCount, <<SetTo(0)>>)
            /\ error' =
                 IF ~ok(answer)
                   THEN "failed"
                   ELSE IF answer.kind = "small" /\ form.mode = "history"
                          THEN "history mode needs a large file"
                          ELSE ""
  /\ UNCHANGED <<form, closure, serverVars>>

\* the backoff timer of Math.pow(2, retryCount) * 1000 ms fires:
\* setRetryCount(prev => prev + 1), then handleSubmit(e) of the same closure
\* runs up to its fetch, then `return` runs the finally block, which queues
\* setRetryCount(0)
BackoffElapsed ==
  /\ clientPc = "backoff"
  /\ requests < MaxSubmitRequests
  /\ handleSubmit(form)
  /\ retryCount' = ApplyUpdates(retryCount, <<Increment, SetTo(0)>>)
  /\ UNCHANGED <<form, closure, statuses, serverVars>>

\* the user loads the page anew
Reload ==
  /\ clientPc \in {"showAd", "backoff"}
  /\ clientPc' = "ready"
  /\ form' = [downloadSpeed |-> "slow", partUnlocked |-> FALSE, mode |-> "normal"]
  /\ retryCount' = 0
  /\ closure' = 0
  /\ requests' = 0
  /\ statuses' = <<>>
  /\ error' = ""
  /\ UNCHANGED serverVars

-----------------------------------------------------------------------------
(* Specifications *)

PlanIdle ==
  /\ planInput = 0
  /\ planPc = "idle"
  /\ planResult = [threw |-> FALSE, parts |-> <<>>]

StoresEmpty ==
  /\ downloadQueue = [k \in DownloadKeys |-> 0]
  /\ activeDownloads = {}
  /\ redis = [rk \in RedisKeys |-> Nil]
  /\ downloadHistory = {}
  /\ userDownloads = {}
  /\ now = 0
  /\ rateCounter = [ip \in Addrs |-> NoCounter]
  /\ adUnlock = {}

ProcsIdle(n) ==
  /\ pc = [c \in 1..n |-> "idle"]
  /\ req = [c \in 1..n |-> NoReq]
  /\ part = [c \in 1..n |-> NoPart]
  /\ fileSize = [c \in 1..n |-> 0]
  /\ waitsOn = [c \in 1..n |-> 0]
  /\ dpResult = [c \in 1..n |-> None]
  /\ resp = [c \in 1..n |-> [status |-> 0, type |-> "none", info |-> NoInfo]]
  /\ fetches = [c \in 1..n |-> 0]
  /\ overlap = [c \in 1..n |-> {}]
  /\ rateLimit = [c \in 1..n |-> 0]
  /\ isUnlocked = [c \in 1..n |-> "unasked"]
  /\ quota = [c \in 1..n |-> NoQuota]
  /\ tracked = [c \in 1..n |-> "unasked"]
  /\ date = [c \in 1..n |-> 0]

\* splitFile alone
InitPlanner ==
  /\ planInput \in PlanSizes
  /\ planPc = "call"
  /\ planResult = [threw |-> FALSE, parts |-> <<>>]
  /\ ProcsIdle(0)
  /\ StoresEmpty
  /\ contentLength = [u \in Urls |-> 0]
  /\ ClientIdle

NextPlanner == SplitFile \/ NextPlan

SpecPlanner == InitPlanner /\ [][NextPlanner]_vars

\* NumCallers concurrent calls of FileSplitter.downloadPart
InitFetcher ==
  /\ ProcsIdle(NumCallers)
  /\ StoresEmpty
  /\ contentLength = [u \in Urls |-> 2 * MAX_PART_SIZE]
  /\ PlanIdle
  /\ ClientIdle

\* with NumCallers < MAX_CONCURRENT_DOWNLOADS the pool is never full and
\* waitForSlot never sleeps
NextFetcher ==
  \/ \E c \in Procs, p \in DirectParts : CallDownloadPart(c, p)
  \/ FetcherStep
  \/ \E k \in DownloadKeys : Expire(PartKey(k))

SpecFetcher == InitFetcher /\ [][NextFetcher]_vars

\* PoolCallers concurrent calls of FileSplitter.downloadPart, enough to fill
\* the pool: the calls go round a list of as many parts as the pool has slots
PoolKeyList == <<<<"a", 1>>, <<"b", 1>>, <<"a", 2>>, <<"b", 2>>, <<"a", 3>>>>

PoolPart(c) ==
  LET k == PoolKeyList[((c - 1) % Len(PoolKeyList)) + 1]
  IN  [url |-> k[1], partNumber |-> k[2], size |-> MAX_PART_SIZE,
       totalParts |-> 3]

InitPool ==
  /\ ProcsIdle(PoolCallers)
  /\ StoresEmpty
  /\ contentLength = [u \in Urls |-> 2 * MAX_PART_SIZE]
  /\ PlanIdle
  /\ ClientIdle

NextPool ==
  \/ \E c \in Procs : CallDownloadPart(c, PoolPart(c))
  \/ \E c \in Procs : waitForSlot(c)
  \/ FetcherStep

SpecPool == InitPool /\ [][NextPool]_vars

\* one caller more, with a part cached beforehand: the first calls are for
\* the parts of the list, one each; the calls after them are for the last
\* part of the list again, whose call may still be in flight or on its way
\* to the pool; the last call is for the cached part
CachedKey == <<"b", 3>>

DedupPart(c) ==
  IF c > PoolCallers
    THEN [url |-> CachedKey[1], partNumber |-> CachedKey[2],
          size |-> MAX_PART_SIZE, totalParts |-> 3]
    ELSE PoolPart(Min(c, Len(PoolKeyList)))

\* at the start all but one slot of the pool are taken: the first calls
\* have their range requests outstanding
TakenAtStart == 1..(MAX_CONCURRENT_DOWNLOADS - 1)

InitDedup ==
  /\ pc = [c \in 1..(PoolCallers + 1) |->
             IF c \in TakenAtStart THEN "get" ELSE "idle"]
  /\ req = [c \in 1..(PoolCallers + 1) |-> NoReq]
  /\ part = [c \in 1..(PoolCallers + 1) |->
               IF c \in TakenAtStart THEN PoolPart(c) ELSE NoPart]
  /\ fileSize = [c \in 1..(PoolCallers + 1) |-> 0]
  /\ waitsOn = [c \in 1..(PoolCallers + 1) |-> 0]
  /\ dpResult = [c \in 1..(PoolCallers + 1) |-> None]
  /\ resp = [c \in 1..(PoolCallers + 1) |->
               [status |-> 0, type |-> "none", info |-> NoInfo]]
  /\ fetches = [c \in 1..(PoolCallers + 1) |->
                  IF c \in TakenAtStart THEN 1 ELSE 0]
  /\ overlap = [c \in 1..(PoolCallers + 1) |->
                  IF c \in TakenAtStart
                    THEN {d \in 1..(c - 1) : PoolPart(d).url = PoolPart(c).url}
                    ELSE {}]
  /\ rateLimit = [c \in 1..(PoolCallers + 1) |-> 0]
  /\ isUnlocked = [c \in 1..(PoolCallers + 1) |-> "unasked"]
  /\ quota = [c \in 1..(PoolCallers + 1) |-> NoQuota]
  /\ tracked = [c \in 1..(PoolCallers + 1) |-> "unasked"]
  /\ date = [c \in 1..(PoolCallers + 1) |-> 0]
  /\ downloadQueue =
       [k \in DownloadKeys |->
          IF \E c \in TakenAtStart : downloadKey(PoolPart(c)) = k
            THEN CHOOSE c \in TakenAtStart : downloadKey(PoolPart(c)) = k
            ELSE 0]
  /\ activeDownloads = {downloadKey(PoolPart(c)) : c \in TakenAtStart}
  /\ redis = [rk \in RedisKeys |->
                IF rk = PartKey(CachedKey) THEN Buffer("payload") ELSE Nil]
  /\ downloadHistory = {}
  /\ userDownloads = {}
  /\ now = 0
  /\ rateCounter = [ip \in Addrs |-> NoCounter]
  /\ adUnlock = {}
  /\ contentLength = [u \in Urls |-> 2 * MAX_PART_SIZE]
  /\ PlanIdle
  /\ ClientIdle

NextDedup ==
  \/ \E c \in Procs : CallDownloadPart(c, DedupPart(c))
  \/ \E c \in Procs : waitForSlot(c)
  \/ FetcherStep

SpecDedup == InitDedup /\ [][NextDedup]_vars

\* callers that keep arriving: a caller whose call has returned calls again.
\* There is one caller more than the pool has slots, each with a part of its
\* own; a caller arrives when no other call is on its way to the pool, and
\* the servers answer no range request with bytes, so that no part is ever
\* cached and every call needs a slot. Timers fire, redis answers and every
\* range request comes to its end (weak fairness of each step), while
\* nothing obliges a poll of waitForSlot to find the pool less than full
StarveKeyList ==
  <<<<"a", 1>>, <<"b", 1>>, <<"magnet:?t", 1>>,
    <<"a", 2>>, <<"b", 2>>, <<"magnet:?t", 2>>>>

StarvePart(c) ==
  LET k == StarveKeyList[((c - 1) % Len(StarveKeyList)) + 1]
  IN  [url |-> k[1], partNumber |-> k[2], size |-> MAX_PART_SIZE,
       totalParts |-> 3]

NextCall(c) ==
  /\ pc[c] = "done"
  /\ \A d \in Procs : ~(pc[d] = "attached" /\ waitsOn[d] = c)
  /\ pc' = [pc EXCEPT ![c] = "idle"]
  /\ part' = [part EXCEPT ![c] = NoPart]
  /\ waitsOn' = [waitsOn EXCEPT ![c] = 0]
  /\ dpResult' = [dpResult EXCEPT ![c] = None]
  /\ fetches' = [fetches EXCEPT ![c] = 0]
  /\ overlap' = [overlap EXCEPT ![c] = {}]
  /\ UNCHANGED <<req, fileSize, resp, storeVars, contentLength, planVars, clientVars,
                 gateVars, date>>

InitStarve ==
  /\ ProcsIdle(MAX_CONCURRENT_DOWNLOADS + 1)
  /\ StoresEmpty
  /\ contentLength = [u \in Urls |-> 2 * MAX_PART_SIZE]
  /\ PlanIdle
  /\ ClientIdle

NextStarve ==
  \/ \E c \in Procs :
       /\ \A d \in Procs : pc[d] \notin {"getBuffer", "slotFree"}
       /\ CallDownloadPart(c, StarvePart(c))
  \/ \E c \in Procs : waitForSlot(c)
  \/ \E c \in Procs : GetBufferReply(c)
  \/ \E c \in Procs : IssueRangeRequest(c)
  \/ \E c \in Procs : RangeError(c)
  \/ \E c \in Procs : NextCall(c)

FairStarve ==
  \A c \in 1..(MAX_CONCURRENT_DOWNLOADS + 1) :
     /\ WF_vars(GetBufferReply(c))
     /\ WF_vars(waitForSlot(c))
     /\ WF_vars(IssueRangeRequest(c))
     /\ WF_vars(RangeError(c))

SpecStarve == InitStarve /\ [][NextStarve]_vars /\ FairStarve

\* NumRequests concurrent requests; a resource of each kind: at most
\* MAX_SIZE, a whole number of parts, and the documented example
ResourceSizes == {1, 2 * MAX_SIZE, ExampleSize}

InitRoute ==
  /\ ProcsIdle(NumRequests)
  /\ StoresEmpty
  /\ \E size \in ResourceSizes :
       contentLength = [u \in Urls |-> IF u \in RouteUrls THEN size ELSE 1]
  /\ PlanIdle
  /\ ClientIdle

\* with NumRequests < MAX_CONCURRENT_DOWNLOADS the pool is never full and
\* waitForSlot never sleeps
NextRoute ==
  \/ \E r \in Procs, body \in Bodies : Post(r, body)
  \/ RouteStep
  \/ FetcherStep
  \/ \E rk \in RedisKeys : Expire(rk)

SpecRoute == InitRoute /\ [][NextRoute]_vars

\* NumRequests concurrent requests for a torrent URL, whose HEAD probe fails
\* or answers with a content-length of one block
TorrentBodies ==
  {[kind |-> "POST", url |-> u, hasPartSize |-> n # 0, partSize |-> n,
    mode |-> m, downloadSpeed |-> "slow", sessionId |-> "s1", ip |-> "ip1",
    watchTime |-> 0] :
     u \in TorrentUrls, n \in 0..1, m \in Modes}

InitTorrent ==
  /\ ProcsIdle(NumRequests)
  /\ StoresEmpty
  /\ contentLength = [u \in Urls |-> 1]
  /\ PlanIdle
  /\ ClientIdle

NextTorrent ==
  \/ \E r \in Procs, body \in TorrentBodies : Post(r, body)
  \/ \E r \in Procs : FileInfoReply(r)
  \/ \E r \in Procs : FileSizeReply(r)
  \/ \E r \in Procs : HeadError(r)
  \/ \E r \in Procs : FileSizeCached(r)
  \/ \E r \in Procs : WholeResponse(r)
  \/ \E r \in Procs : WholeError(r)
  \/ \E r \in Procs : HistoryRecorded(r)
  \/ \E r \in Procs : UserRecorded(r)
  \/ \E r \in Procs : FileInfoCached(r)

SpecTorrent == InitTorrent /\ [][NextTorrent]_vars

\* the page alone, against a server that answers as it likes
InitClient ==
  /\ ProcsIdle(0)
  /\ StoresEmpty
  /\ contentLength = [u \in Urls |-> 1]
  /\ PlanIdle
  /\ ClientIdle

NextClient ==
  \/ \E f \in Forms : Submit(f)
  \/ \E answer \in Answers : ResponseArrives(answer)
  \/ BackoffElapsed
  \/ Reload

SpecClient == InitClient /\ [][NextClient]_vars

\* the slot of a finished invocation takes the next one
Recycle(r) ==
  /\ pc[r] = "done"
  /\ pc' = [pc EXCEPT ![r] = "idle"]
  /\ req' = [req EXCEPT ![r] = NoReq]
  /\ resp' = [resp EXCEPT ![r] = [status |-> 0, type |-> "none", info |-> NoInfo]]
  /\ overlap' = [overlap EXCEPT ![r] = {}]
  /\ rateLimit' = [rateLimit EXCEPT ![r] = 0]
  /\ UNCHANGED <<part, fileSize, waitsOn, dpResult, fetches, storeVars,
                 contentLength, planVars, clientVars, now, rateCounter, adUnlock,
                 isUnlocked, quota, tracked, date>>

\* the address gate: requests of one address, one after another in
\* NumRequests slots, for a URL whose file info is cached; the clock
\* advances by half the window of the address counter
GateBodies ==
  {[kind |-> "POST", url |-> "a", hasPartSize |-> FALSE, partSize |-> 0,
    mode |-> "private", downloadSpeed |-> "slow", sessionId |-> "s1",
    ip |-> "ip1", watchTime |-> 0]}

GateTick == (RATE_WINDOW * 1000) \div 2

InitGate ==
  /\ ProcsIdle(NumRequests)
  /\ downloadQueue = [k \in DownloadKeys |-> 0]
  /\ activeDownloads = {}
  /\ redis = [rk \in RedisKeys |->
                IF rk = InfoKey("a") THEN Json(fileInfoOf("a", 1)) ELSE Nil]
  /\ downloadHistory = {}
  /\ userDownloads = {}
  /\ now = 0
  /\ rateCounter = [ip \in Addrs |-> NoCounter]
  /\ adUnlock = {}
  /\ contentLength = [u \in Urls |-> 1]
  /\ PlanIdle
  /\ ClientIdle

\* requests overlap inside the gate; an admitted request runs to its end
\* and frees its slot before the next request arrives, and no request
\* arrives once the counter has passed the limit
NextGate ==
  \/ \E r \in Procs, body \in GateBodies :
       /\ rateCounter[clientAddress(body)].count <= RATE_LIMIT
       /\ \A d \in Procs :
            pc[d] # "getInfo" /\ (pc[d] = "done" => resp[d].status # 200)
       /\ Arrive(r, body)
  \/ \E r \in Procs : IncrReply(r)
  \/ \E r \in Procs : ExpireReply(r)
  \/ \E r \in Procs : FileInfoReply(r)
  \/ \E r \in Procs : Recycle(r)
  \/ Tick(GateTick)

SpecGate == InitGate /\ [][NextGate]_vars

\* NumCallers concurrent calls of AdTracker; the clock advances by half the
\* unlock duration
HourTick == UNLOCK_DURATION \div 2

\* grants for part 1 of the URL, of every length by session s1 and long
\* enough by session s2; queries about three pairs
UnlockCalls ==
  {a \in AdCalls({"trackAdWatch"}, Sessions, WatchTimes) :
     a.partSize = 1 /\ (a.sessionId = "s1" \/ a.watchTime = MIN_WATCH_TIME)}
    \cup {a \in AdCalls({"isUnlocked"}, Sessions, {0}) :
            a.partSize = 1 \/ a.sessionId = "s1"}

InitUnlock ==
  /\ ProcsIdle(NumCallers)
  /\ StoresEmpty
  /\ contentLength = [u \in Urls |-> 1]
  /\ PlanIdle
  /\ ClientIdle

NextUnlock ==
  \/ \E c \in Procs, args \in UnlockCalls : CallTrackAdWatch(c, args)
  \/ \E c \in Procs, args \in UnlockCalls : CallIsUnlocked(c, args)
  \/ \E c \in Procs : UpsertReply(c)
  \/ \E c \in Procs : FindFirstReply(c)
  \/ Tick(HourTick)

SpecUnlock == InitUnlock /\ [][NextUnlock]_vars

\* NumRequests invocations, requests and grants, with every gate in play: the
\* address counter starts absent or at its limit, the session's history
\* empty or at its quota
Speeds == {"slow", "fast", ""}

AdmitBodies ==
  {[kind |-> "POST", url |-> u, hasPartSize |-> n # 0, partSize |-> n,
    mode |-> m, downloadSpeed |-> sp, sessionId |-> "s1", ip |-> "ip1",
    watchTime |-> 0] :
     u \in RouteUrls, n \in 0..1, m \in Modes, sp \in Speeds}
    \cup {[kind |-> "POST", url |-> "", hasPartSize |-> FALSE, partSize |-> 0,
           mode |-> "private", downloadSpeed |-> "slow", sessionId |-> "s1",
           ip |-> "ip1", watchTime |-> 0]}

AdmitGrants ==
  {a \in AdCalls({"trackAdWatch"}, {"s1"}, WatchTimes) :
     a.partSize = 1 /\ a.watchTime > MIN_WATCH_TIME}

\* the rows of n downloads of session s1: the first made half an hour
\* before, the others just now
EarlierRows(n) ==
  {[row |-> i, id |-> 0, sessionId |-> "s1", url |-> "a", partNumber |-> 0,
    timestamp |-> IF i = 1 THEN 0 - HourTick ELSE 0] : i \in 1..n}

InitAdmit ==
  /\ ProcsIdle(NumRequests)
  /\ downloadQueue = [k \in DownloadKeys |-> 0]
  /\ activeDownloads = {}
  /\ redis = [rk \in RedisKeys |-> Nil]
  /\ \E n \in {0, maxDownloads} : downloadHistory = EarlierRows(n)
  /\ userDownloads = {}
  /\ now = 0
  /\ \E counter \in {NoCounter,
                     [count |-> RATE_LIMIT, expiresAt |-> RATE_WINDOW * 1000]} :
       rateCounter = [ip \in Addrs |-> IF ip = "ip1" THEN counter ELSE NoCounter]
  /\ adUnlock = {}
  /\ \E size \in {1, ExampleSize} :
       contentLength = [u \in Urls |-> IF u \in RouteUrls THEN size ELSE 1]
  /\ PlanIdle
  /\ ClientIdle

NextAdmit ==
  \/ \E r \in Procs, body \in AdmitBodies : Arrive(r, body)
  \/ \E c \in Procs, args \in AdmitGrants : CallTrackAdWatch(c, args)
  \/ \E c \in Procs : UpsertReply(c)
  \/ GateStep
  \/ RouteStep
  \/ FetcherStep
  \/ Tick(HourTick)

SpecAdmit == InitAdmit /\ [][NextAdmit]_vars

-----------------------------------------------------------------------------
(* Properties *)

SameKey(c, d) == downloadKey(part[c]) = downloadKey(part[d])

\* the calls of c and d overlapped in time
Overlapping(c, d) == c \in overlap[d] \/ d \in overlap[c]

\* d had returned before c started
FinishedBefore(d, c) == d < c /\ d \notin overlap[c]

\* the range request of c is outstanding or its response is being cached
InFlight(c) == pc[c] \in {"get", "setexPart"}

\* C1: at most one range request is outstanding per download key, whatever
\* the interleaving of downloadPart calls.
C1_OneRequestPerKey ==
  \A k \in DownloadKeys : Cardinality(OutstandingFor(k)) <= 1

\* C2: downloadPart calls for the same key that overlap in time settle with
\* the same outcome: all get the payload or all get the error.
C2_SameOutcome ==
  \A c \in Procs, d \in Procs :
     (/\ c # d
      /\ Overlapping(c, d)
      /\ SameKey(c, d)
      /\ dpResult[c] # None
      /\ dpResult[d] # None) => dpResult[c] = dpResult[d]

\* C3: never more than MAX_CONCURRENT_DOWNLOADS range requests are
\* outstanding process-wide.
C3_PoolBound == Cardinality(Outstanding) <= MAX_CONCURRENT_DOWNLOADS

\* C4: whole-resource GETs are deduplicated per URL and each holds a slot of
\* the pool.
C4_WholeFetchDedupAndSlot ==
  /\ \A u \in Urls : Cardinality({r \in OutstandingWhole : req[r].url = u}) <= 1
  /\ Cardinality(OutstandingWhole) <= Cardinality(activeDownloads)

\* C5: a failed part fetch leaves nothing behind: the step in which the
\* failing call returns releases its slot, removes the in-flight marker of
\* its key and writes no cache entry, and no marker or slot ever outlives
\* the requests of its key; a later call for the key issues a fresh request.
C5_NoStaleState ==
  \A k \in DownloadKeys :
     /\ downloadQueue[k] # 0 =>
          InFlight(downloadQueue[k]) /\ downloadKey(part[downloadQueue[k]]) = k
     /\ k \in activeDownloads =>
          \E c \in Procs : InFlight(c) /\ downloadKey(part[c]) = k

C5_FailureStep ==
  \A c \in Procs :
     (pc[c] = "get" /\ dpResult'[c] = "FetchError") =>
        LET k == downloadKey(part[c])
        IN  /\ k \notin activeDownloads'
            /\ downloadQueue'[k] = 0
            /\ redis' = redis

C5_FailureLeavesNothing == []C5_NoStaleState /\ [][C5_FailureStep]_vars

\* a call failed, and a call for the same key that started after it had
\* returned has its own range request outstanding
C5_Witness ==
  \E c \in Procs, d \in Procs :
     /\ dpResult[c] = "FetchError"
     /\ fetches[c] = 1
     /\ FinishedBefore(c, d)
     /\ SameKey(c, d)
     /\ pc[d] = "get"

RECURSIVE SumSizes(_, _)
SumSizes(parts, n) == IF n = 0 THEN 0 ELSE parts[n].size + SumSizes(parts, n - 1)

\* C6: for totalSize > 0 splitFile returns ceil(totalSize / MAX_PART_SIZE)
\* parts numbered 1..totalParts whose byte ranges
\* [(i-1)*MAX_PART_SIZE, min(i*MAX_PART_SIZE, totalSize) - 1] are contiguous
\* and cover [0, totalSize) exactly once; 12 000 000 000 bytes give the
\* sizes 5368709120, 5368709120, 1262581760 (524288, 524288, 123299 blocks).
C6_PlannerTiles ==
  (planPc = "returned" /\ planInput > 0) =>
     LET parts == planResult.parts
         n == Len(parts)
     IN  /\ ~planResult.threw
         /\ n * MAX_PART_SIZE >= planInput
         /\ (n - 1) * MAX_PART_SIZE < planInput
         /\ \A i \in 1..n :
              /\ parts[i].partNumber = i
              /\ parts[i].totalParts = n
              /\ RangeStart(parts[i]) = (i - 1) * MAX_PART_SIZE
              /\ RangeEnd(parts[i]) = Min(i * MAX_PART_SIZE, planInput) - 1
              /\ RangeStart(parts[i]) <= RangeEnd(parts[i])
              /\ i < n => RangeStart(parts[i + 1]) = RangeEnd(parts[i]) + 1
         /\ RangeStart(parts[1]) = 0
         /\ RangeEnd(parts[n]) = planInput - 1
         /\ SumSizes(parts, n) = planInput
         /\ planInput = ExampleSize =>
              [i \in 1..n |-> parts[i].size] = <<524288, 524288, 123299>>

\* splitFile returned the three parts of the documented example
C6_Witness ==
  /\ planPc = "returned"
  /\ planInput = ExampleSize
  /\ Len(planResult.parts) = 3
  /\ planResult.parts[3].size = 123299

\* C7: splitFile called with totalSize <= 0 produces an error, not a list.
C7_RejectsNonPositive ==
  (planPc = "returned" /\ planInput <= 0) => planResult.threw

\* C8: for an oversized resource and a part index i in 1..totalParts, the
\* range POST requests through downloadPart is the planner's range
\* [(i-1)*MAX_PART_SIZE, min(i*MAX_PART_SIZE, totalSize) - 1], and the size
\* passed is the planner's size of part i.
C8_RequestedRangeIsPlanned ==
  \A r \in Outstanding :
     (req[r] # NoReq /\ part[r].partNumber \in 1..Len(splitFile(fileSize[r]))) =>
        LET i == part[r].partNumber
            total == fileSize[r]
        IN  /\ RangeStart(part[r]) = (i - 1) * MAX_PART_SIZE
            /\ RangeEnd(part[r]) = Min(i * MAX_PART_SIZE, total) - 1
            /\ RangeEnd(part[r]) <= total - 1
            /\ part[r].size = splitFile(total)[i].size

\* C9: once an oversized resource has produced its descriptor response, a
\* later request for the same URL with a part index in 1..totalParts reaches
\* downloadPart and is not answered with the descriptor again.
C9_PartAfterDescriptor ==
  \A d \in Procs, r \in Procs :
     (/\ req[d] # NoReq
      /\ req[r] # NoReq
      /\ FinishedBefore(d, r)
      /\ req[d].url = req[r].url
      /\ resp[d].type = "large_file"
      /\ pc[r] = "done"
      /\ ~NoPartSize(req[r])
      /\ req[r].partSize \in 1..TotalParts(contentLength[req[r].url])) =>
        /\ resp[r].type # "large_file"
        /\ part[r] # NoPart

\* the rows a request created
RowsOf(r) == {row \in downloadHistory \cup userDownloads : row.id = r}

AddressGatePcs == {"incr", "expire"}

\* C11: the address counter is a fixed window: redis.incr hands the n-th
\* request of a window the count n (1 when the address has no counter), a
\* request passes the address gate when its count is at most RATE_LIMIT and
\* is answered 429 otherwise, and the counter does not outlive its 60 second
\* expiry, so the next request after the window gets the count 1 and passes.
C11_Window ==
  \A ip \in Addrs :
     (rateCounter[ip].count > 0 /\ rateCounter[ip].expiresAt # NoExpiry) =>
        /\ now < rateCounter[ip].expiresAt
        /\ rateCounter[ip].expiresAt <= now + RATE_WINDOW * 1000

C11_Step ==
  \A r \in Procs :
     /\ (pc[r] = "incr" /\ pc'[r] # "incr") =>
          /\ rateLimit'[r] = rateCounter[clientAddress(req[r])].count + 1
          /\ rateCounter'[clientAddress(req[r])].count = rateLimit'[r]
     /\ (pc[r] \in AddressGatePcs /\ pc'[r] \notin AddressGatePcs) =>
          IF rateLimit'[r] > RATE_LIMIT
            THEN pc'[r] = "done" /\ resp'[r].status = 429
            ELSE pc'[r] # "done" /\ resp'[r].status = 0

C11_FixedWindow == []C11_Window /\ [][C11_Step]_vars

\* the 101st request of a window was denied, and after the window a request
\* got the count 1 and passed
C11_Witness ==
  \E d \in Procs, r \in Procs :
     /\ pc[d] = "done"
     /\ resp[d].status = 429
     /\ rateLimit[d] = RATE_LIMIT + 1
     /\ pc[r] = "getInfo"
     /\ rateLimit[r] = 1
     /\ now >= RATE_WINDOW * 1000

\* C12: every counter key that exists has an expiry, under any interleaving
\* of the requests of its address.
C12_CounterHasExpiry ==
  \A ip \in Addrs :
     rateCounter[ip].count > 0 => rateCounter[ip].expiresAt # NoExpiry

\* the responses with which a gate rejects a request
Denials == {"limit", "rate", "locked", "quota"}

\* the pcs of POST inside the gates
GatePcs == {"incr", "expire", "findFirst", "count"}

\* the rows of a session whose timestamp is in [d - 1 h, d]
Recent(sessionId, d) ==
  {row \in downloadHistory : /\ row.sessionId = sessionId
                             /\ d - windowMs <= row.timestamp
                             /\ row.timestamp <= d}

\* C13: in history mode checkLimit returns remaining = max(0, 3 - count) and
\* allowed iff remaining > 0, count being the session's rows stamped within
\* the hour before the call; a request that is not allowed is answered 429,
\* one that is allowed goes on to the file-info lookup; a private-mode
\* request is never asked and never denied by this gate.
C13_Step ==
  \A r \in Procs :
     (pc[r] = "count" /\ pc'[r] # "count") =>
        LET recent == Recent(req[r].sessionId, date[r])
            full == \E S \in SUBSET recent : Cardinality(S) = maxDownloads
        IN  /\ quota'[r].remaining + Min(Cardinality(recent), maxDownloads)
                 = maxDownloads
            /\ quota'[r].allowed <=> ~full
            /\ IF full
                 THEN /\ pc'[r] = "done"
                      /\ resp'[r].status = 429
                      /\ resp'[r].type = "quota"
                      /\ quota'[r].remaining = 0
                 ELSE pc'[r] = "getInfo"

C13_Asked ==
  \A r \in Procs :
     req[r].kind = "POST" =>
        /\ req[r].mode # "history" =>
             resp[r].type # "quota" /\ quota[r] = NoQuota
        /\ resp[r].type = "quota" =>
             resp[r].status = 429 /\ ~quota[r].allowed
        /\ (/\ req[r].mode = "history"
            /\ pc[r] \notin GatePcs \cup {"idle"}
            /\ resp[r].type \notin Denials
            /\ resp[r].status # 400) => quota[r].allowed

C13_SessionQuota == []C13_Asked /\ [][C13_Step]_vars

\* with three rows in the window a request was denied with remaining = 0;
\* once the oldest row had left the window a later request was allowed
C13_Witness ==
  \E d \in Procs, r \in Procs :
     /\ EarlierRows(maxDownloads) \subseteq downloadHistory
     /\ resp[d].type = "quota"
     /\ quota[d].remaining = 0
     /\ FinishedBefore(d, r)
     /\ quota[r].allowed
     /\ quota[r].remaining = 1

\* the DownloadHistory rows a request created
HistoryRowsOf(r) == {row \in downloadHistory : row.id = r}

\* the bytes the request asked for have been fetched or found cached
BytesProduced(r) ==
  \/ dpResult[r] = "payload"
  \/ /\ part[r] = NoPart
     /\ fetches[r] = 1
     /\ \/ pc[r] \in {"recordHistory", "recordUser", "setexFile"}
        \/ pc[r] = "done" /\ resp[r].type = "bytes"

\* C14: a history-mode request that is answered with bytes has exactly one
\* DownloadHistory row, written after the bytes were produced; a request in
\* private mode, one whose fetch failed, and one a gate rejected have none.
C14_Rows ==
  \A r \in Procs :
     req[r].kind = "POST" =>
        /\ Cardinality(HistoryRowsOf(r)) <= 1
        /\ HistoryRowsOf(r) # {} =>
             /\ req[r].mode = "history"
             /\ BytesProduced(r)
             /\ resp[r].type \notin Denials
             /\ \A row \in HistoryRowsOf(r) : row.sessionId = req[r].sessionId
        /\ (/\ pc[r] = "done"
            /\ resp[r].type \in {"part", "bytes"}
            /\ req[r].mode = "history") => Cardinality(HistoryRowsOf(r)) = 1
        /\ resp[r].status \in {400, 403, 429, 500} => HistoryRowsOf(r) = {}

C14_RecordStep ==
  \A r \in Procs :
     (\E row \in downloadHistory' \ downloadHistory : row.id = r) =>
        /\ pc[r] = "recordHistory"
        /\ BytesProduced(r)
        /\ HistoryRowsOf(r) = {}

C14_RecordedOnceAfterBytes == []C14_Rows /\ [][C14_RecordStep]_vars

\* a history-mode download was recorded once, and a history-mode request
\* whose fetch failed left no row
C14_Witness ==
  \E r \in Procs, d \in Procs :
     /\ pc[r] = "done"
     /\ req[r].mode = "history"
     /\ resp[r].type \in {"part", "bytes"}
     /\ Cardinality(HistoryRowsOf(r)) = 1
     /\ pc[d] = "done"
     /\ req[d].mode = "history"
     /\ fetches[d] = 1
     /\ resp[d].status = 500
     /\ HistoryRowsOf(d) = {}

\* the calls of trackAdWatch that returned true, and those for the pair of c
Grants == {g \in Procs : req[g].kind = "trackAdWatch" /\ tracked[g] = "true"}

SamePair(c, d) ==
  req[c].sessionId = req[d].sessionId /\ partUrl(req[c]) = partUrl(req[d])

GrantsFor(c) == {g \in Grants : SamePair(g, c)}

\* the calls of isUnlocked that returned
Queries == {q \in Procs : req[q].kind = "isUnlocked" /\ pc[q] = "done"}

\* C15: trackAdWatch with watchTime < 5000 returns false and leaves the
\* tokens as they are; with watchTime >= 5000 it stores a token that expires
\* one hour after the grant. isUnlocked(session, key) is true only when a
\* grant for that very pair exists and the query is made strictly before
\* that grant's time + 1 h, and a query made before the expiry of a finished
\* grant is false only when an overlapping grant of the pair with an earlier
\* expiry overwrote the token.
C15_CallStep ==
  \A c \in Procs :
     (pc[c] = "idle" /\ req'[c].kind = "trackAdWatch") =>
        IF req'[c].watchTime < MIN_WATCH_TIME
          THEN /\ pc'[c] = "done"
               /\ tracked'[c] = "false"
               /\ adUnlock' = adUnlock
          ELSE /\ pc'[c] = "upsert"
               /\ tracked'[c] = "unasked"

C15_Tokens ==
  /\ \A c \in Procs :
        (req[c].kind = "trackAdWatch" /\ req[c].watchTime < MIN_WATCH_TIME) =>
           c \notin Grants
  /\ \A row \in adUnlock :
        /\ row.expiresAt = row.unlockedAt + UNLOCK_DURATION
        /\ \E g \in Grants :
              /\ req[g].sessionId = row.sessionId
              /\ partUrl(req[g]) = row.url
              /\ req[g].watchTime >= MIN_WATCH_TIME
              /\ date[g] = row.unlockedAt
  /\ \A q \in Queries :
        /\ isUnlocked[q] = "yes" =>
             \E g \in GrantsFor(q) : date[q] < date[g] + UNLOCK_DURATION
        /\ isUnlocked[q] = "no" =>
             \A g \in GrantsFor(q) :
                (FinishedBefore(g, q) /\ date[q] < date[g] + UNLOCK_DURATION) =>
                   \E h \in GrantsFor(q) :
                      /\ Overlapping(g, h)
                      /\ date[h] + UNLOCK_DURATION <= date[q]

C15_TokenLifecycle == []C15_Tokens /\ [][C15_CallStep]_vars

\* after one grant, a query made before expiresAt returned true, and a
\* query made at expiresAt returned false
C15_Witness ==
  \E g \in Grants, q \in Queries, p \in Queries :
     /\ GrantsFor(q) = {g}
     /\ SamePair(q, p)
     /\ FinishedBefore(g, q)
     /\ isUnlocked[q] = "yes"
     /\ date[q] > date[g]
     /\ date[p] = date[g] + UNLOCK_DURATION
     /\ isUnlocked[p] = "no"

\* C16: there is at most one token per (session, key) pair, and once a grant
\* for the pair has returned true its token is the one of a most recent
\* grant: it expires one hour after the time of a grant of the pair that no
\* later grant of the pair has followed.
C16_OneTokenOfLatestGrant ==
  /\ \A row \in adUnlock, other \in adUnlock :
        (row.sessionId = other.sessionId /\ row.url = other.url) => row = other
  /\ \A g \in Grants :
        \E row \in adUnlock :
           /\ row.sessionId = req[g].sessionId
           /\ row.url = partUrl(req[g])
           /\ \E h \in GrantsFor(g) :
                 /\ row.expiresAt = date[h] + UNLOCK_DURATION
                 /\ \A k \in GrantsFor(g) : ~FinishedBefore(h, k)

\* two grants for one pair, the second after the first had returned and
\* half an hour later: the one token expires an hour after the second
C16_Witness ==
  \E g \in Grants, h \in Grants :
     /\ SamePair(g, h)
     /\ FinishedBefore(g, h)
     /\ date[h] > date[g]
     /\ \E row \in adUnlock :
           /\ row.sessionId = req[h].sessionId
           /\ row.url = partUrl(req[h])
           /\ row.expiresAt = date[h] + UNLOCK_DURATION

\* the request has read no cache, probed nothing, fetched nothing and
\* recorded nothing
Untouched(r) ==
  /\ fetches[r] = 0
  /\ fileSize[r] = 0
  /\ part[r] = NoPart
  /\ waitsOn[r] = 0
  /\ dpResult[r] = None
  /\ RowsOf(r) = {}

\* C17: a fast request whose isUnlocked query finds no unexpired token of
\* its session and resource key is answered 403 before any cache lookup,
\* probe or fetch; a fast request is past the unlock gate only with
\* isUnlocked true, and after a finished grant for its session and key,
\* within the hour, the query is true and the request goes on to its fetch.
C17_Step ==
  \A r \in Procs :
     (req[r].kind = "POST" /\ pc[r] = "findFirst" /\ pc'[r] # "findFirst") =>
        IF isUnlocked'[r] = "no"
          THEN /\ pc'[r] = "done"
               /\ resp'[r].status = 403
               /\ resp'[r].type = "locked"
          ELSE /\ isUnlocked'[r] = "yes"
               /\ pc'[r] \in {"count", "getInfo"}

C17_Gate ==
  \A r \in Procs :
     req[r].kind = "POST" =>
        /\ resp[r].type = "locked" =>
             /\ resp[r].status = 403
             /\ req[r].downloadSpeed = "fast"
             /\ isUnlocked[r] = "no"
             /\ quota[r] = NoQuota
             /\ Untouched(r)
        /\ (/\ req[r].downloadSpeed = "fast"
            /\ pc[r] \notin {"idle", "incr", "expire", "findFirst"}
            /\ resp[r].type \notin Denials) => isUnlocked[r] = "yes"
        /\ isUnlocked[r] = "no" =>
             \A g \in GrantsFor(r) :
                (FinishedBefore(g, r) /\ now < date[g] + UNLOCK_DURATION) =>
                   \E h \in GrantsFor(r) :
                      /\ Overlapping(g, h)
                      /\ date[h] + UNLOCK_DURATION <= now

C17_UnlockGate == []C17_Gate /\ [][C17_Step]_vars

\* after a grant with watchTime 6000 had returned, a fast request of the
\* session for the part passed the unlock gate and has its range request
\* outstanding
C17_Witness ==
  \E g \in Grants, r \in Procs :
     /\ req[g].watchTime = MIN_WATCH_TIME + 1000
     /\ req[r].kind = "POST"
     /\ req[r].downloadSpeed = "fast"
     /\ SamePair(g, r)
     /\ FinishedBefore(g, r)
     /\ isUnlocked[r] = "yes"
     /\ pc[r] = "get"

\* C18: whatever downloadSpeed a request carries, a byte fetch it issues
\* without pacing implies that isUnlocked returned true for it.
C18_UnpacedNeedsToken ==
  \A r \in Procs :
     (/\ req[r].kind = "POST"
      /\ pc[r] \in {"get", "getWhole"}
      /\ ~isSlow(req[r])) => isUnlocked[r] = "yes"

\* C19: a request that a gate denies ends in a rejection (429 or 403) and
\* has read no file info, probed nothing, fetched nothing and recorded
\* nothing; the step that rejects it leaves the caches and the tables as
\* they are, and a request reaches the file-info lookup only when the address
\* gate, the unlock gate of a fast request and the quota gate of a
\* history-mode request have all allowed it.
C19_Closed ==
  \A r \in Procs :
     req[r].kind = "POST" =>
        /\ pc[r] \in GatePcs => Untouched(r) /\ resp[r].status = 0
        /\ resp[r].type \in Denials =>
             /\ pc[r] = "done"
             /\ resp[r].status \in {403, 429}
             /\ Untouched(r)

C19_Step ==
  \A r \in Procs :
     /\ (resp'[r].type \in Denials /\ resp[r].type \notin Denials) =>
          /\ pc[r] \in GatePcs \cup {"idle"}
          /\ redis' = redis
          /\ downloadHistory' = downloadHistory
          /\ userDownloads' = userDownloads
          /\ downloadQueue' = downloadQueue
          /\ activeDownloads' = activeDownloads
     /\ (/\ req'[r].kind = "POST"
         /\ pc[r] \in GatePcs \cup {"idle"}
         /\ pc'[r] \notin GatePcs \cup {"idle"}) =>
          \/ pc'[r] = "done" /\ resp'[r].status \in {400, 403, 429}
          \/ /\ pc'[r] = "getInfo"
             /\ rateLimit'[r] \in 1..RATE_LIMIT
             /\ req'[r].downloadSpeed = "fast" => isUnlocked'[r] = "yes"
             /\ req'[r].mode = "history" => quota'[r].allowed
     /\ (/\ req[r].kind = "POST"
         /\ pc[r] \in GatePcs
         /\ pc'[r] # pc[r]
         /\ \/ rateLimit'[r] > RATE_LIMIT
            \/ isUnlocked'[r] = "no"
            \/ pc[r] = "count" /\ ~quota'[r].allowed) =>
          /\ pc'[r] = "done"
          /\ resp'[r].type \in Denials

C19_FailsClosed == []C19_Closed /\ [][C19_Step]_vars

\* the address gate denied one request and the quota gate another
C19_Witness ==
  \E d \in Procs, r \in Procs :
     /\ resp[d].type = "rate"
     /\ resp[d].status = 429
     /\ resp[r].type = "quota"
     /\ resp[r].status = 429
     /\ Untouched(d)
     /\ Untouched(r)

\* C20: a lookup of a cached value (file size, part payload, file info)
\* whose TTL has elapsed is a miss and goes on to a fresh HEAD probe, range
\* request or classification; a lookup before the TTL has elapsed returns
\* the cached value and issues no request.
C20_Lookup ==
  \A c \in Procs :
     /\ (pc[c] = "getSize" /\ pc'[c] # "getSize") =>
          LET cachedSize == redis[SizeKey(req[c].url)]
          IN  IF cachedSize = Nil
                THEN pc'[c] = "head" /\ fileSize'[c] = 0
                ELSE /\ pc'[c] # "head"
                     /\ fileSize'[c] = cachedSize.num
     /\ (pc[c] = "getBuffer" /\ pc'[c] # "getBuffer") =>
          LET cachedPart == redis[PartKey(downloadKey(part[c]))]
          IN  IF cachedPart = Nil
                THEN pc'[c] \in {"sleep", "slotFree"} /\ dpResult'[c] = None
                ELSE /\ dpResult'[c] = cachedPart.bytes
                     /\ pc'[c] \in {"done", "recordHistory", "recordUser"}
     /\ (pc[c] = "getInfo" /\ pc'[c] # "getInfo") =>
          LET fileInfo == redis[InfoKey(req[c].url)]
          IN  IF fileInfo = Nil
                THEN pc'[c] \in {"getSize", "torrent"}
                ELSE /\ pc'[c] = "done"
                     /\ resp'[c].status = 200
                     /\ resp'[c].info = fileInfo.value
     /\ (pc[c] \in {"getSize", "getBuffer", "getInfo"} /\ pc'[c] # pc[c]) =>
          (fetches'[c] = fetches[c] \/ pc'[c] = "getWhole")

\* a process that missed the part cache issues its own range request
C20_Fresh ==
  \A c \in Procs :
     /\ pc[c] \in {"sleep", "slotFree"} => fetches[c] = 0 /\ dpResult[c] = None
     /\ pc[c] \in {"get", "setexPart"} => fetches[c] = 1

C20_NoStaleReturn == []C20_Fresh /\ [][C20_Lookup]_vars

\* a request probed the size of a resource and finished; the cached size
\* and file info expired, and a later request for the URL is probing afresh
C20_Witness ==
  \E d \in Procs, r \in Procs :
     /\ pc[d] = "done"
     /\ fileSize[d] # 0
     /\ FinishedBefore(d, r)
     /\ req[d].url = req[r].url
     /\ pc[r] = "head"

\* C21: a request whose mode is not "history" creates no DownloadHistory row
\* and no UserDownloads row, whatever its outcome.
C21_PrivateLeavesNoRecord ==
  \A r \in Procs :
     (req[r].kind = "POST" /\ req[r].mode # "history") => RowsOf(r) = {}

\* C22: a request for an oversized resource whose part index is not in
\* 1..totalParts is rejected as invalid input: it gets into no downloadPart
\* call, issues no range request, records nothing, and ends with status 400.
C22_BadIndexRejected ==
  \A r \in Procs :
     (/\ req[r].kind = "POST"
      /\ contentLength[req[r].url] > MAX_SIZE
      /\ req[r].hasPartSize
      /\ req[r].partSize \notin 1..TotalParts(contentLength[req[r].url])) =>
        /\ part[r] = NoPart
        /\ fetches[r] = 0
        /\ RowsOf(r) = {}
        /\ pc[r] = "done" => resp[r].status = 400

\* C23: DownloadLimiter.checkDownloadLimit answers allowed = true with
\* remaining = Infinity for every session, whatever has been recorded, so a
\* request with a valid URL always goes on to the address counter and no
\* request is ever answered 429 'Download limit reached'.
C23_Allows ==
  /\ \A sid \in Sessions \cup {""} :
        checkDownloadLimit(sid) = [allowed |-> TRUE, remaining |-> "Infinity"]
  /\ \A r \in Procs : resp[r].type # "limit"

C23_Step ==
  \A r \in Procs :
     (pc[r] = "idle" /\ req'[r].kind = "POST" /\ req'[r].url # "") =>
        /\ pc'[r] = "incr"
        /\ resp'[r].status = 0

C23_NoOpQuota == []C23_Allows /\ [][C23_Step]_vars

\* a session's download was recorded in both tables, and a later request of
\* the session went on to the address counter
C23_Witness ==
  \E d \in Procs, r \in Procs :
     /\ req[d].kind = "POST"
     /\ req[r].kind = "POST"
     /\ FinishedBefore(d, r)
     /\ req[d].sessionId = req[r].sessionId
     /\ HistoryRowsOf(d) # {}
     /\ RowsOf(d) \cap userDownloads # {}
     /\ pc[r] = "incr"

\* C24: a request for a torrent URL whose file info is not cached makes no
\* size lookup, sends no HEAD probe and fetches no bytes, and is answered
\* 200 with a descriptor of type "torrent".
C24_TorrentDescriptor ==
  \A r \in Procs :
     (req[r].kind = "POST" /\ req[r].url \in TorrentUrls) =>
        /\ pc[r] \notin {"getSize", "head", "getWhole"}
        /\ fileSize[r] = 0
        /\ fetches[r] = 0
        /\ pc[r] = "done" => (resp[r].status = 200 /\ resp[r].type = "torrent")

\* the call of c changes neither the slots nor the in-flight map, and issues
\* no request
NoAdmission(c) ==
  /\ activeDownloads' = activeDownloads
  /\ downloadQueue' = downloadQueue
  /\ fetches' = fetches

\* C25: a downloadPart call whose key has a promise in downloadQueue takes
\* that promise at once and returns what it settles with; a call that finds
\* its part in the cache returns the cached payload; neither waits for a
\* slot, takes one, touches downloadQueue or issues a request, however full
\* the pool is.
C25_Step ==
  \A c \in Procs :
     /\ (pc[c] = "idle" /\ pc'[c] # "idle" /\ part'[c] # NoPart) =>
          /\ IF downloadQueue[downloadKey(part'[c])] # 0
               THEN /\ pc'[c] = "attached"
                    /\ waitsOn'[c] = downloadQueue[downloadKey(part'[c])]
               ELSE pc'[c] = "getBuffer"
          /\ NoAdmission(c)
     /\ (pc[c] = "attached" /\ pc'[c] # "attached") =>
          /\ dpResult'[c] = dpResult[waitsOn[c]]
          /\ pc'[c] \notin {"getBuffer", "sleep", "slotFree", "get"}
          /\ NoAdmission(c)
     /\ (/\ pc[c] = "getBuffer"
         /\ pc'[c] # "getBuffer"
         /\ redis[PartKey(downloadKey(part[c]))] # Nil) =>
          /\ dpResult'[c] = "payload"
          /\ pc'[c] \notin {"sleep", "slotFree", "get"}
          /\ NoAdmission(c)

C25_Attached ==
  \A c \in Procs :
     waitsOn[c] # 0 => (fetches[c] = 0 /\ pc[c] \in {"attached", "done"})

C25_DedupBeforeAdmission == []C25_Attached /\ [][C25_Step]_vars

\* the pool is full of outstanding requests, a caller is attached to one of
\* them, and another caller has returned the cached part without a request
C25_Witness ==
  \E c \in Procs, d \in Procs :
     /\ Cardinality(activeDownloads) = MAX_CONCURRENT_DOWNLOADS
     /\ Cardinality(Outstanding) = MAX_CONCURRENT_DOWNLOADS
     /\ pc[c] = "attached"
     /\ pc[waitsOn[c]] = "get"
     /\ pc[d] = "done"
     /\ downloadKey(part[d]) = CachedKey
     /\ dpResult[d] = "payload"
     /\ fetches[d] = 0

\* C26: a key is in activeDownloads, and has a promise in downloadQueue,
\* exactly when a range request for the key has been issued and has not
\* completed.
C26_MarkerIffOutstanding ==
  \A k \in DownloadKeys :
     LET outstanding == \E c \in Procs : InFlight(c) /\ downloadKey(part[c]) = k
     IN  /\ k \in activeDownloads <=> outstanding
         /\ downloadQueue[k] # 0 <=> outstanding

\* C27: when every range request is eventually answered or fails, a caller
\* that sleeps in waitForSlot eventually has its own range request
\* outstanding, even while other callers keep calling.
C27_NoStarvation ==
  \A c \in 1..(MAX_CONCURRENT_DOWNLOADS + 1) :
     (pc[c] = "sleep") ~> (pc[c] = "get")

\* C28: at every instant, a session has at most maxDownloads DownloadHistory
\* rows stamped within the hour before, however its requests interleave.
C28_QuotaUnderConcurrency ==
  \A sid \in Sessions : Cardinality(Recent(sid, now)) <= maxDownloads

\* C29: while every answer to a submission is 429, the submission sends at
\* most MAX_RETRIES + 1 requests.
C29_RetriesBounded ==
  (\A i \in DOMAIN statuses : statuses[i] = 429) =>
     requests <= MAX_RETRIES + 1

====
